---------------------------- MODULE Spec2Model ----------------------------
(***************************************************************************)
(* Model of the email-classifier MCP server                                *)
(* (src/mcp_email_classifier/server.py): the MCPServer tool registry, the  *)
(* four triage tools, the dispatcher handle_request and the FastAPI        *)
(* endpoints /classify, /tools/{tool_name}, /health and /tools; and of     *)
(* the automation server (src/email-automation/mcp-server): GmailHandler,  *)
(* EmailProcessor and the endpoints of main.py, under AutoSpec.            *)
(*                                                                         *)
(* A Python str is modelled as a sequence of one-character strings, so     *)
(* that `in`, lower(), split() and re.findall() are computed character by  *)
(* character.  Labels that the code only compares or returns whole         *)
(* (category names, dictionary keys, tool names) are TLA+ strings.         *)
(* Confidence values are kept in integer hundredths (0.7 is 70).           *)
(***************************************************************************)
EXTENDS Integers, Sequences, FiniteSets, TLC

(***************************************************************************)
(* Bounds of the model.                                                    *)
(***************************************************************************)
\* Longest email_content, counted in fragments of Fragments.
MaxWords == 2
\* Number of requests the server answers before the model stops.
MaxClock == 3
\* Number of messages of the mailbox.
MaxEmails == 2

(***************************************************************************)
(* The state of the server process.                                        *)
(***************************************************************************)
VARIABLES
  tools,       \* mcp_server.tools
  clock,       \* datetime.now(), counted in answered requests
  request,     \* the request being handled, or the last one handled
  pending,     \* TRUE while request awaits its handler
  dispatched,  \* what handle_request returned or raised inside call_tool
  response,    \* the HTTP response to request
  previous,    \* history: the response to the request just before, when it
               \* was the same request
  \* The automation server (email-automation/mcp-server), another process.
  started,            \* startup_event has run
  gmail_service,      \* gmail_handler.service of main.py
  processor_service,  \* email_processor.gmail_handler.service
  credentials,        \* the environment holds Gmail credentials
  inbox,              \* the mailbox: ids of the INBOX/UNREAD messages, in
                      \* the order the API lists them
  outbox,             \* history: the messages the mailbox API accepted to
                      \* send during the last step
  auto_request,       \* the last request the automation server handled
  auto_response,      \* its HTTP response
  failed,             \* history: the collaborators whose call failed while
                      \* that request, or the running batch, was handled
  batch,              \* the background task process_emails_batch
  processed,          \* history: the ids of the emails process_single_email
                      \* was called with, by the last webhook or the batch
  last                \* history: what the last process_single_email did

classifierVars == <<tools, clock, request, pending, dispatched, response, previous>>

autoVars ==
  <<started, gmail_service, processor_service, credentials, inbox, outbox,
    auto_request, auto_response, failed, batch, processed, last>>

vars == <<classifierVars, autoVars>>

(***************************************************************************)
(* Python str primitives.                                                  *)
(***************************************************************************)
\* str.lower(), character by character, on the alphabet of the model.
CaseMap ==
  [c \in {"A", "B", "C", "D", "E", "F", "G", "H", "I", "J", "K", "L", "M",
          "N", "O", "P", "Q", "R", "S", "T", "U", "V", "W", "X", "Y", "Z",
          "Á", "É", "Í", "Ó", "Ú", "Ñ"} |->
     CASE c = "A" -> "a" [] c = "B" -> "b" [] c = "C" -> "c" [] c = "D" -> "d"
       [] c = "E" -> "e" [] c = "F" -> "f" [] c = "G" -> "g" [] c = "H" -> "h"
       [] c = "I" -> "i" [] c = "J" -> "j" [] c = "K" -> "k" [] c = "L" -> "l"
       [] c = "M" -> "m" [] c = "N" -> "n" [] c = "O" -> "o" [] c = "P" -> "p"
       [] c = "Q" -> "q" [] c = "R" -> "r" [] c = "S" -> "s" [] c = "T" -> "t"
       [] c = "U" -> "u" [] c = "V" -> "v" [] c = "W" -> "w" [] c = "X" -> "x"
       [] c = "Y" -> "y" [] c = "Z" -> "z" [] c = "Á" -> "á" [] c = "É" -> "é"
       [] c = "Í" -> "í" [] c = "Ó" -> "ó" [] c = "Ú" -> "ú" [] c = "Ñ" -> "ñ"]

lower(s) ==
  [i \in 1..Len(s) |-> IF s[i] \in DOMAIN CaseMap THEN CaseMap[s[i]] ELSE s[i]]

\* sub in s
Contains(sub, s) ==
  \E i \in 1..(Len(s) - Len(sub) + 1) : SubSeq(s, i, i + Len(sub) - 1) = sub

\* any(indicator in content for indicator in indicators)
AnyIn(indicators, content) ==
  \E k \in 1..Len(indicators) : Contains(indicators[k], content)

\* a + " " + b
Space == <<" ">>

(***************************************************************************)
(* _determine_category                                                     *)
(***************************************************************************)
urgent_indicators ==
  << <<"u", "r", "g", "e", "n", "t">>,
     <<"a", "s", "a", "p">>,
     <<"e", "m", "e", "r", "g", "e", "n", "c", "y">>,
     <<"c", "r", "í", "t", "i", "c", "o">>,
     <<"i", "m", "p", "o", "r", "t", "a", "n", "t", "e">>,
     <<"d", "e", "a", "d", "l", "i", "n", "e">>,
     <<"h", "o", "y">> >>

spam_indicators ==
  << <<"o", "f", "f", "e", "r">>,
     <<"w", "i", "n">>,
     <<"p", "r", "i", "z", "e">>,
     <<"g", "r", "a", "t", "i", "s">>,
     <<"d", "e", "s", "c", "u", "e", "n", "t", "o">>,
     <<"c", "l", "i", "c", "k", " ", "h", "e", "r", "e">>,
     <<"l", "i", "m", "i", "t", "e", "d", " ", "t", "i", "m", "e">> >>

newsletter_indicators ==
  << <<"n", "e", "w", "s", "l", "e", "t", "t", "e", "r">>,
     <<"b", "u", "l", "l", "e", "t", "i", "n">>,
     <<"u", "p", "d", "a", "t", "e">>,
     <<"d", "i", "g", "e", "s", "t">> >>

support_indicators ==
  << <<"h", "e", "l", "p">>,
     <<"s", "o", "p", "o", "r", "t", "e">>,
     <<"s", "u", "p", "p", "o", "r", "t">>,
     <<"p", "r", "o", "b", "l", "e", "m">>,
     <<"i", "s", "s", "u", "e">>,
     <<"e", "r", "r", "o", "r">> >>

kw_newsletter == <<"n", "e", "w", "s", "l", "e", "t", "t", "e", "r">>

\* Mutant: the SPAM rule is tried before the URGENT rule.
determine_category_spam_first(content, sender) ==
  IF AnyIn(spam_indicators, content) THEN "SPAM"
  ELSE IF AnyIn(urgent_indicators, content) THEN "URGENT"
  ELSE IF AnyIn(newsletter_indicators, content) THEN "NEWSLETTER"
  ELSE IF AnyIn(support_indicators, content) THEN "SUPPORT"
  ELSE IF Contains(kw_newsletter, lower(sender)) THEN "NEWSLETTER"
  ELSE "IMPORTANT"

\* Mutant: the final else branch is missing, so the function returns None.
determine_category_no_default(content, sender) ==
  IF AnyIn(urgent_indicators, content) THEN "URGENT"
  ELSE IF AnyIn(spam_indicators, content) THEN "SPAM"
  ELSE IF AnyIn(newsletter_indicators, content) THEN "NEWSLETTER"
  ELSE IF AnyIn(support_indicators, content) THEN "SUPPORT"
  ELSE IF Contains(kw_newsletter, lower(sender)) THEN "NEWSLETTER"
  ELSE "None"

determine_category(content, sender) ==
  IF AnyIn(urgent_indicators, content) THEN "URGENT"
  ELSE IF AnyIn(spam_indicators, content) THEN "SPAM"
  ELSE IF AnyIn(newsletter_indicators, content) THEN "NEWSLETTER"
  ELSE IF AnyIn(support_indicators, content) THEN "SUPPORT"
  ELSE IF Contains(kw_newsletter, lower(sender)) THEN "NEWSLETTER"
  ELSE "IMPORTANT"

(***************************************************************************)
(* _calculate_confidence, in hundredths                                    *)
(***************************************************************************)
base_confidence == 70
confidence_step == 15
confidence_cap == 95

strong_indicators ==
  [ URGENT |-> << <<"u", "r", "g", "e", "n", "t">>, <<"a", "s", "a", "p">>, <<"e", "m", "e", "r", "g", "e", "n", "c", "y">> >>,
    SPAM |-> << <<"w", "i", "n">>, <<"p", "r", "i", "z", "e">>, <<"f", "r", "e", "e">> >>,
    NEWSLETTER |-> << <<"n", "e", "w", "s", "l", "e", "t", "t", "e", "r">>, <<"u", "n", "s", "u", "b", "s", "c", "r", "i", "b", "e">> >>,
    SUPPORT |-> << <<"h", "e", "l", "p">>, <<"s", "o", "p", "o", "r", "t", "e">>, <<"p", "r", "o", "b", "l", "e", "m">> >> ]

\* strong_indicators.get(category, [])
strong_for(category) ==
  IF category \in DOMAIN strong_indicators THEN strong_indicators[category] ELSE << >>

Min(a, b) == IF a < b THEN a ELSE b
Max(a, b) == IF a > b THEN a ELSE b

\* the for loop of _calculate_confidence over the indicators from position k
RECURSIVE confidence_loop(_, _, _, _)
confidence_loop(indicators, k, content, acc) ==
  IF k > Len(indicators) THEN acc
  ELSE confidence_loop(indicators, k + 1, content,
                       IF Contains(indicators[k], content)
                       THEN acc + confidence_step ELSE acc)

\* Mutant: the result is returned without min(..., 0.95).
calculate_confidence_uncapped(content, category) ==
  confidence_loop(strong_for(category), 1, content, base_confidence)

\* Mutant: base_confidence is an attribute of the server that every answered
\* request has bumped, instead of a local of the call.
calculate_confidence_shared(content, category) ==
  Min(confidence_loop(strong_for(category), 1, content,
                      base_confidence + clock),
      confidence_cap)

calculate_confidence(content, category) ==
  Min(confidence_loop(strong_for(category), 1, content, base_confidence),
      confidence_cap)

(***************************************************************************)
(* classify_email                                                          *)
(***************************************************************************)
unknown_domain == <<"u", "n", "k", "n", "o", "w", "n">>

\* sender.split('@')[-1]: the characters after the last '@'
RECURSIVE last_at(_, _)
last_at(s, i) == IF i = 0 \/ s[i] = "@" THEN i ELSE last_at(s, i - 1)

split_last(s) == SubSeq(s, last_at(s, Len(s)) + 1, Len(s))

sender_domain_of(sender) ==
  IF \E i \in 1..Len(sender) : sender[i] = "@" THEN split_last(sender)
  ELSE unknown_domain

\* Mutant: the keywords are matched against the text as typed.
classify_email_as_typed(email_content, sender, subject, time) ==
  LET content == email_content \o Space \o subject
      category == determine_category(content, sender)
      confidence == calculate_confidence(content, category)
  IN  [category |-> category,
       confidence |-> confidence,
       analysis_time |-> time,
       sender_domain |-> sender_domain_of(sender)]

classify_email(email_content, sender, subject, time) ==
  LET content_lower == lower(email_content \o Space \o subject)
      category == determine_category(content_lower, sender)
      confidence == calculate_confidence(content_lower, category)
  IN  [category |-> category,
       confidence |-> confidence,
       analysis_time |-> time,
       sender_domain |-> sender_domain_of(sender)]
(***************************************************************************)
(* suggest_response                                                        *)
(***************************************************************************)
responses ==
  [ URGENT |->
      [ professional |-> "He recibido su mensaje urgente. Lo revisaré inmediatamente y le responderé en un plazo máximo de 2 horas.",
        friendly |-> "¡Gracias por el mensaje! Lo reviso ahora mismo y te respondo pronto." ],
    SUPPORT |->
      [ professional |-> "Gracias por contactar a soporte. Hemos recibido su consulta y le asignaremos un ticket. Le responderemos en un plazo de 24 horas.",
        friendly |-> "¡Hola! Recibimos tu consulta de soporte. Te ayudaremos lo antes posible." ],
    IMPORTANT |->
      [ professional |-> "He recibido su mensaje. Lo revisaré y le daré seguimiento apropiado durante el día.",
        friendly |-> "¡Gracias por tu mensaje! Lo revisaré hoy mismo y te respondo." ],
    NEWSLETTER |->
      [ professional |-> "Gracias por la información. La revisaré cuando tenga disponibilidad.",
        friendly |-> "¡Gracias por el newsletter! Lo leeré cuando tenga un momento." ] ]

default_response == "He recibido su mensaje. Le responderé pronto."

\* Mutant: an unknown tone of a known category falls back to the professional
\* entry of that category instead of the generic string.
lookup_response_tone_fallback(category, tone) ==
  IF category \in DOMAIN responses
  THEN (IF tone \in DOMAIN responses[category]
        THEN responses[category][tone]
        ELSE responses[category]["professional"])
  ELSE default_response

\* responses.get(category, {}).get(tone, default)
lookup_response(category, tone) ==
  IF category \in DOMAIN responses /\ tone \in DOMAIN responses[category]
  THEN responses[category][tone]
  ELSE default_response

suggest_response(email_content, category, tone) ==
  LET suggested_response == lookup_response(category, tone)
  IN  [suggested_response |-> suggested_response,
       category |-> category,
       tone |-> tone,
       response_length |-> Len(suggested_response)]

(***************************************************************************)
(* extract_urgency                                                         *)
(***************************************************************************)
urgency_keywords ==
  << <<"u", "r", "g", "e", "n", "t">>,
     <<"a", "s", "a", "p">>,
     <<"e", "m", "e", "r", "g", "e", "n", "c", "y">>,
     <<"i", "m", "m", "e", "d", "i", "a", "t", "e", "l", "y">>,
     <<"n", "o", "w">>,
     <<"h", "o", "y">>,
     <<"i", "n", "m", "e", "d", "i", "a", "t", "o">>,
     <<"c", "r", "í", "t", "i", "c", "o">> >>

deadline_keywords ==
  << <<"d", "e", "a", "d", "l", "i", "n", "e">>,
     <<"b", "y">>,
     <<"b", "e", "f", "o", "r", "e">>,
     <<"h", "a", "s", "t", "a">>,
     <<"p", "a", "r", "a", " ", "e", "l">> >>

\* The three entries of date_patterns, by the separator they look for.
date_patterns == << "slash", "hyphen", "de" >>

Digits == {"0", "1", "2", "3", "4", "5", "6", "7", "8", "9"}

AsciiLower ==
  {"a", "b", "c", "d", "e", "f", "g", "h", "i", "j", "k", "l", "m",
   "n", "o", "p", "q", "r", "s", "t", "u", "v", "w", "x", "y", "z"}

AccentedLower == {"á", "é", "í", "ó", "ú", "ñ"}

\* [a-zA-Z]
IsAsciiLetter(c) == c \in AsciiLower \/ (c \in DOMAIN CaseMap /\ CaseMap[c] \in AsciiLower)

\* \w
IsWordChar(c) ==
  c \in Digits \/ c = "_" \/ c \in AsciiLower \/ c \in AccentedLower \/ c \in DOMAIN CaseMap

\* \b just before position i of s
WordBoundary(s, i) ==
  LET before == i > 1 /\ i - 1 <= Len(s) /\ IsWordChar(s[i - 1])
      after == i >= 1 /\ i <= Len(s) /\ IsWordChar(s[i])
  IN  before # after

\* \d{n} at position i
DigitsAt(s, i, n) == i + n - 1 <= Len(s) /\ \A j \in i..(i + n - 1) : s[j] \in Digits

\* a literal at position i, under re.IGNORECASE
LiteralAt(s, i, lit) ==
  i + Len(lit) - 1 <= Len(s) /\ lower(SubSeq(s, i, i + Len(lit) - 1)) = lit

\* \b\d{1,2}<sep>\d{1,2}<sep>\d{4}\b at position i with the given widths:
\* the position after the match, or 0
numeric_end(s, i, sep, n1, n2) ==
  LET p2 == i + n1 + 1
      p3 == p2 + n2 + 1
  IN  IF /\ WordBoundary(s, i)
         /\ DigitsAt(s, i, n1) /\ LiteralAt(s, i + n1, sep)
         /\ DigitsAt(s, p2, n2) /\ LiteralAt(s, p2 + n2, sep)
         /\ DigitsAt(s, p3, 4) /\ WordBoundary(s, p3 + 4)
      THEN p3 + 4 ELSE 0

\* greedy \d{1,2}: two digits are tried before one
numeric_match(s, i, sep) ==
  IF numeric_end(s, i, sep, 2, 2) > 0 THEN numeric_end(s, i, sep, 2, 2)
  ELSE IF numeric_end(s, i, sep, 2, 1) > 0 THEN numeric_end(s, i, sep, 2, 1)
  ELSE IF numeric_end(s, i, sep, 1, 2) > 0 THEN numeric_end(s, i, sep, 1, 2)
  ELSE numeric_end(s, i, sep, 1, 1)

\* [a-zA-Z]+ from position i: the position after the longest run of letters
RECURSIVE letters_end(_, _)
letters_end(s, i) ==
  IF i <= Len(s) /\ IsAsciiLetter(s[i]) THEN letters_end(s, i + 1) ELSE i

lit_de == <<" ", "d", "e", " ">>

\* \b\d{1,2} de [a-zA-Z]+ de \d{4}\b at position i with n1 leading digits
worded_end(s, i, n1) ==
  LET p2 == i + n1 + Len(lit_de)
      p3 == letters_end(s, p2)
      p4 == p3 + Len(lit_de)
  IN  IF /\ WordBoundary(s, i)
         /\ DigitsAt(s, i, n1) /\ LiteralAt(s, i + n1, lit_de)
         /\ p3 > p2 /\ LiteralAt(s, p3, lit_de)
         /\ DigitsAt(s, p4, 4) /\ WordBoundary(s, p4 + 4)
      THEN p4 + 4 ELSE 0

worded_match(s, i) ==
  IF worded_end(s, i, 2) > 0 THEN worded_end(s, i, 2) ELSE worded_end(s, i, 1)

match_end(s, i, pattern) ==
  CASE pattern = "slash" -> numeric_match(s, i, <<"/">>)
    [] pattern = "hyphen" -> numeric_match(s, i, <<"-">>)
    [] pattern = "de" -> worded_match(s, i)

\* re.findall(pattern, s, re.IGNORECASE): the scan takes the leftmost position
\* where the pattern matches and resumes after the match
\* The positions from i on where the pattern matches
match_starts(pattern, s, i) == {j \in i..Len(s) : match_end(s, j, pattern) > 0}

\* The least of a non-empty set of positions
Least(positions) == CHOOSE m \in positions : \A n \in positions : m <= n

RECURSIVE findall_from(_, _, _)
findall_from(pattern, s, starts) ==
  IF starts = {} THEN << >>
  ELSE LET j == Least(starts)
           e == match_end(s, j, pattern)
       IN  <<SubSeq(s, j, e - 1)>> \o findall_from(pattern, s, {n \in starts : n >= e})

findall(pattern, s, i) == findall_from(pattern, s, match_starts(pattern, s, i))

\* for pattern in date_patterns: dates_found.extend(findall(...))
RECURSIVE dates_loop(_, _)
dates_loop(k, s) ==
  IF k > Len(date_patterns) THEN << >>
  ELSE findall(date_patterns[k], s, 1) \o dates_loop(k + 1, s)

urgency_weight == 1
deadline_weight == 2
urgency_cap == 10
high_threshold == 5
medium_threshold == 2

\* for keyword in keywords: if keyword in content: score += weight
RECURSIVE score_loop(_, _, _, _, _)
score_loop(keywords, k, content, weight, acc) ==
  IF k > Len(keywords) THEN acc
  ELSE score_loop(keywords, k + 1, content, weight,
                  IF Contains(keywords[k], content) THEN acc + weight ELSE acc)

\* the urgency_score local, before the cap of the return statement
raw_urgency_score(email_content) ==
  LET content_lower == lower(email_content)
  IN  score_loop(deadline_keywords, 1, content_lower, deadline_weight,
                 score_loop(urgency_keywords, 1, content_lower, urgency_weight, 0))

\* Mutant: urgency_score is returned without min(..., 10).
extract_urgency_uncapped(email_content) ==
  LET dates_found == dates_loop(1, email_content)
      urgency_score == raw_urgency_score(email_content)
  IN  [urgency_score |-> urgency_score,
       deadlines |-> dates_found,
       has_urgency |-> urgency_score > 0,
       urgency_level |-> IF urgency_score > high_threshold THEN "HIGH"
                         ELSE IF urgency_score > medium_threshold THEN "MEDIUM"
                         ELSE "LOW"]

extract_urgency(email_content) ==
  LET dates_found == dates_loop(1, email_content)
      urgency_score == raw_urgency_score(email_content)
  IN  [urgency_score |-> Min(urgency_score, urgency_cap),
       deadlines |-> dates_found,
       has_urgency |-> urgency_score > 0,
       urgency_level |-> IF urgency_score > high_threshold THEN "HIGH"
                         ELSE IF urgency_score > medium_threshold THEN "MEDIUM"
                         ELSE "LOW"]

(***************************************************************************)
(* analyze_sentiment                                                       *)
(***************************************************************************)
positive_words ==
  << <<"g", "r", "a", "c", "i", "a", "s">>,
     <<"t", "h", "a", "n", "k", "s">>,
     <<"e", "x", "c", "e", "l", "e", "n", "t", "e">>,
     <<"g", "r", "e", "a", "t">>,
     <<"g", "o", "o", "d">>,
     <<"b", "u", "e", "n", "o">>,
     <<"a", "p", "r", "e", "c", "i", "o">>,
     <<"f", "e", "l", "i", "z">> >>

negative_words ==
  << <<"p", "r", "o", "b", "l", "e", "m", "a">>,
     <<"p", "r", "o", "b", "l", "e", "m">>,
     <<"e", "r", "r", "o", "r">>,
     <<"b", "a", "d">>,
     <<"m", "a", "l">>,
     <<"e", "n", "o", "j", "a", "d", "o">>,
     <<"a", "n", "g", "r", "y">>,
     <<"f", "r", "u", "s", "t", "r", "a", "d", "o">> >>

\* sum(1 for word in words if word in content), from position k
RECURSIVE count_present(_, _, _)
count_present(words, k, content) ==
  IF k > Len(words) THEN 0
  ELSE (IF Contains(words[k], content) THEN 1 ELSE 0)
       + count_present(words, k + 1, content)

Abs(n) == IF n < 0 THEN -n ELSE n

\* A raised Python exception, as a value.
Raise(type) == [exception |-> type]

IsException(v) == "exception" \in DOMAIN v

\* a / b on numbers: the quotient as the pair <<numerator, denominator>>
TrueDiv(a, b) == IF b = 0 THEN Raise("ZeroDivisionError") ELSE [num |-> a, den |-> b]

\* Mutant: the divisor is the plain sum, without max(1, ...).
sentiment_denominator_unguarded(positive_count, negative_count) ==
  positive_count + negative_count

sentiment_denominator(positive_count, negative_count) ==
  Max(1, positive_count + negative_count)

analyze_sentiment(email_content) ==
  LET content_lower == lower(email_content)
      positive_count == count_present(positive_words, 1, content_lower)
      negative_count == count_present(negative_words, 1, content_lower)
      sentiment == IF positive_count > negative_count THEN "POSITIVE"
                   ELSE IF negative_count > positive_count THEN "NEGATIVE"
                   ELSE "NEUTRAL"
      confidence == TrueDiv(Abs(positive_count - negative_count),
                            sentiment_denominator(positive_count, negative_count))
  IN  IF IsException(confidence) THEN confidence
      ELSE [sentiment |-> sentiment,
            positive_indicators |-> positive_count,
            negative_indicators |-> negative_count,
            confidence |-> confidence]
(***************************************************************************)
(* The tool registry (self.tools): an insertion-ordered dict, kept as the  *)
(* sequence of its items.                                                  *)
(***************************************************************************)
has_tool(reg, name) == \E k \in 1..Len(reg) : reg[k].name = name

get_tool(reg, name) == reg[CHOOSE k \in 1..Len(reg) : reg[k].name = name].function

\* list(reg.keys())
tool_keys(reg) == [k \in 1..Len(reg) |-> reg[k].name]

\* self.tools[name] = function
register_tool(reg, name, function) ==
  IF has_tool(reg, name)
  THEN [k \in 1..Len(reg) |->
          IF reg[k].name = name THEN [name |-> name, function |-> function] ELSE reg[k]]
  ELSE Append(reg, [name |-> name, function |-> function])

\* Mutant: the last registration reuses the name of the one before it.
register_tools_overwrite(reg) ==
  register_tool(
    register_tool(
      register_tool(
        register_tool(reg, "classify_email", "MCPServer.classify_email"),
        "suggest_response", "MCPServer.suggest_response"),
      "extract_urgency", "MCPServer.extract_urgency"),
    "extract_urgency", "MCPServer.analyze_sentiment")

register_tools(reg) ==
  register_tool(
    register_tool(
      register_tool(
        register_tool(reg, "classify_email", "MCPServer.classify_email"),
        "suggest_response", "MCPServer.suggest_response"),
      "extract_urgency", "MCPServer.extract_urgency"),
    "analyze_sentiment", "MCPServer.analyze_sentiment")

(***************************************************************************)
(* Calling a tool with keyword arguments, and the dispatcher.              *)
(***************************************************************************)
\* The parameters of each tool after self: those without and with a default.
signatures ==
  [ function \in {"MCPServer.classify_email", "MCPServer.suggest_response",
                  "MCPServer.extract_urgency", "MCPServer.analyze_sentiment"} |->
      CASE function = "MCPServer.classify_email" ->
             [required |-> {"email_content", "sender", "subject"}, optional |-> {}]
        [] function = "MCPServer.suggest_response" ->
             [required |-> {"email_content", "category"}, optional |-> {"tone"}]
        [] function = "MCPServer.extract_urgency" ->
             [required |-> {"email_content"}, optional |-> {}]
        [] function = "MCPServer.analyze_sentiment" ->
             [required |-> {"email_content"}, optional |-> {}] ]

default_tone == "professional"

\* Python binds **kwargs to the parameters: a missing or an unexpected
\* keyword raises TypeError before the body runs.
binds(function, kwargs) ==
  /\ signatures[function].required \subseteq DOMAIN kwargs
  /\ DOMAIN kwargs \subseteq (signatures[function].required \cup signatures[function].optional)

\* self.tools[tool_name](**kwargs)
call_function(function, kwargs, time) ==
  IF ~binds(function, kwargs) THEN Raise("TypeError")
  ELSE CASE function = "MCPServer.classify_email" ->
              classify_email(kwargs.email_content, kwargs.sender, kwargs.subject, time)
         [] function = "MCPServer.suggest_response" ->
              suggest_response(kwargs.email_content, kwargs.category,
                               IF "tone" \in DOMAIN kwargs THEN kwargs.tone ELSE default_tone)
         [] function = "MCPServer.extract_urgency" ->
              extract_urgency(kwargs.email_content)
         [] function = "MCPServer.analyze_sentiment" ->
              analyze_sentiment(kwargs.email_content)

tool_not_found(tool_name) == [error |-> <<"Tool", tool_name, "not found">>]

\* Mutant: the registry is indexed without the membership test.
handle_request_unchecked(reg, tool_name, kwargs, time) ==
  IF has_tool(reg, tool_name)
  THEN call_function(get_tool(reg, tool_name), kwargs, time)
  ELSE Raise("KeyError")

\* MCPServer.handle_request(tool_name, **kwargs): the value it returns, or
\* the exception it lets through.
handle_request(reg, tool_name, kwargs, time) ==
  IF has_tool(reg, tool_name)
  THEN call_function(get_tool(reg, tool_name), kwargs, time)
  ELSE tool_not_found(tool_name)

(***************************************************************************)
(* The FastAPI endpoints.                                                  *)
(***************************************************************************)
NoValue == [none |-> TRUE]

IsNoValue(v) == "none" \in DOMAIN v

http_ok == 200
http_error == 500

HTTPException(status_code, detail) == [status |-> status_code, detail |-> detail]

\* mcp_server.handle_request(tool_name, **request): a key of the body named
\* like a parameter of handle_request itself collides with it.
dispatch(reg, tool_name, body, time) ==
  IF DOMAIN body \cap {"self", "tool_name"} # {} THEN Raise("TypeError")
  ELSE handle_request(reg, tool_name, body, time)

\* POST /tools/{tool_name}
call_tool(reg, tool_name, body, time) ==
  LET result == dispatch(reg, tool_name, body, time)
  IN  IF IsException(result) THEN HTTPException(http_error, result.exception)
      ELSE [status |-> http_ok, body |-> [success |-> TRUE, result |-> result]]

\* POST /classify
classify_endpoint(body, time) ==
  LET result == classify_email(body.email_content, body.sender, body.subject, time)
  IN  IF IsException(result) THEN HTTPException(http_error, result.exception)
      ELSE [status |-> http_ok, body |-> [success |-> TRUE, classification |-> result]]

\* GET /health
health_check(time) ==
  [status |-> http_ok, body |-> [status |-> "healthy", timestamp |-> time]]

\* GET /tools
list_tools(reg) == [status |-> http_ok, body |-> [tools |-> tool_keys(reg)]]

(***************************************************************************)
(* Inputs.                                                                 *)
(***************************************************************************)
Fragments ==
  << <<"U", "R", "G", "E", "N", "T", " ", "a", "s", "a", "p", " ", "e", "m", "e", "r", "g", "e", "n", "c", "y", " ", "e", "r", "r", "o", "r">>,
     <<"G", "r", "a", "c", "i", "a", "s", "!", " ", "Y", "o", "u", " ", "W", "I", "N", " ", "a", " ", "f", "r", "e", "e", " ", "p", "r", "i", "z", "e", " ", "n", "o", "w">>,
     <<"D", "e", "a", "d", "l", "i", "n", "e", ":", " ", "b", "y", " ", "1", "2", "/", "0", "5", "/", "2", "0", "2", "4", ",", " ", "b", "e", "f", "o", "r", "e", "/", "h", "a", "s", "t", "a", "/", "p", "a", "r", "a", " ", "e", "l", " ", "3", " ", "d", "e", " ", "M", "a", "r", "z", "o", " ", "d", "e", " ", "2", "0", "2", "4">>,
     <<"g", "r", "e", "a", "t", ",", " ", "t", "h", "a", "n", "k", "s", ":", " ", "h", "e", "l", "p", " ", "w", "i", "t", "h", " ", "t", "h", "e", " ", "p", "r", "o", "b", "l", "e", "m", "a">> >>

Senders ==
  << <<"c", "e", "o", "@", "c", "o", "m", "p", "a", "n", "y", ".", "c", "o", "m">>,
     <<"N", "e", "w", "s", "l", "e", "t", "t", "e", "r", "@", "t", "e", "c", "h", "n", "e", "w", "s", ".", "c", "o", "m">>,
     <<"l", "o", "c", "a", "l", "u", "s", "e", "r">>,
     <<"u", "s", "e", "r", "@">> >>

Subjects ==
  << <<>>,
     <<"W", "e", "e", "k", "l", "y", " ", "N", "e", "w", "s", "l", "e", "t", "t", "e", "r">> >>

\* The test of the urgent role: a Spanish subject and body from the chief
\* executive.
scenario_subject ==
  <<"U", "R", "G", "E", "N", "T", "E", ":", " ", "r", "e", "v", "i", "s", "i", "ó", "n", " ", "c", "r", "í", "t", "i", "c", "a">>

scenario_body ==
  <<"N", "e", "c", "e", "s", "i", "t", "o", " ", "e", "s", "t", "o", " ", "h", "o", "y", ",", " ", "e", "s", " ", "u", "n", "a", " ", "e", "m", "e", "r", "g", "e", "n", "c", "i", "a">>

Range(seq) == {seq[k] : k \in 1..Len(seq)}

\* The texts made of at most n fragments joined by single spaces.
RECURSIVE TextsUpTo(_)
TextsUpTo(n) ==
  IF n = 0 THEN {<< >>}
  ELSE TextsUpTo(n - 1) \cup Range(Fragments)
       \cup {t \o Space \o f : t \in TextsUpTo(n - 1) \ {<< >>}, f \in Range(Fragments)}

Texts == TextsUpTo(MaxWords)

Categories == {"URGENT", "SPAM", "NEWSLETTER", "SUPPORT", "IMPORTANT"}

ToolNames ==
  {"classify_email", "suggest_response", "extract_urgency", "analyze_sentiment",
   "nonexistent"}

\* JSON bodies posted to /tools/{tool_name}.
ParameterMappings ==
  {[email_content |-> c] : c \in Texts}
  \cup {[email_content |-> Fragments[1], sender |-> s, subject |-> j] :
          s \in Range(Senders), j \in Range(Subjects)}
  \cup {[email_content |-> << >>, category |-> g, tone |-> t] :
          g \in Categories \cup {"OTHER"}, t \in {"professional", "friendly", "casual"}}
  \cup {[email_content |-> << >>, category |-> g] : g \in Categories \cup {"OTHER"}}
  \cup {[k \in {} |-> << >>],
        [email_content |-> Fragments[1], priority |-> "high"],
        [sender |-> Senders[1], subject |-> Subjects[1]],
        [tool_name |-> "classify_email"]}

EmptyBody == [k \in {} |-> << >>]

Requests ==
  {[route |-> "/classify", tool_name |-> "",
    body |-> [email_content |-> c, sender |-> s, subject |-> j]] :
      c \in Texts, s \in Range(Senders), j \in Range(Subjects)}
  \cup {[route |-> "/classify", tool_name |-> "",
          body |-> [email_content |-> scenario_body, sender |-> Senders[1],
                    subject |-> scenario_subject]]}
  \cup {[route |-> "/tools/{tool_name}", tool_name |-> n, body |-> m] :
          n \in ToolNames, m \in ParameterMappings}
  \cup {[route |-> "/health", tool_name |-> "", body |-> EmptyBody],
        [route |-> "/tools", tool_name |-> "", body |-> EmptyBody]}

NoRequest == [route |-> "", tool_name |-> "", body |-> EmptyBody]

(***************************************************************************)
(* The automation server: email-automation/mcp-server.                     *)
(*                                                                         *)
(* Its collaborators, the mailbox API, the language model and the cache,   *)
(* answer or fail as they please: each call's outcome is an input of the   *)
(* step that makes it.  The handlers have no suspension point other than   *)
(* awaiting each other, so each request is one step, and the background    *)
(* batch, once it runs, blocks the event loop until it ends.               *)
(***************************************************************************)
None == "None"

\* build('gmail', 'v1', credentials=...)
Service == "gmail.v1"

\* A chat completion: its message content, or the client's exception.
Completion(content) == [content |-> content]

Whitespace == {" ", "\n", "\t"}

\* str.strip()
RECURSIVE lstrip(_)
lstrip(s) ==
  IF s # << >> /\ Head(s) \in Whitespace THEN lstrip(Tail(s)) ELSE s

RECURSIVE rstrip(_)
rstrip(s) ==
  IF s # << >> /\ s[Len(s)] \in Whitespace THEN rstrip(SubSeq(s, 1, Len(s) - 1))
  ELSE s

strip(s) == rstrip(lstrip(s))

category_urgent == <<"u", "r", "g", "e", "n", "t">>
category_important == <<"i", "m", "p", "o", "r", "t", "a", "n", "t">>
category_newsletter == <<"n", "e", "w", "s", "l", "e", "t", "t", "e", "r">>
category_spam == <<"s", "p", "a", "m">>

\* GmailHandler.initialize: the service is built when credentials are found
\* and loading or refreshing them does not fail.
initialize(creds, auth) ==
  IF creds /\ ~IsException(auth) THEN Service ELSE None

\* GmailHandler.send_email: the message the API accepted, or the exception.
gmail_send_email(service, to, subject, body, api) ==
  IF service = None THEN Raise("AttributeError")
  ELSE IF IsException(api) THEN Raise("Exception")
  ELSE [message |-> [to |-> to, subject |-> subject, body |-> body]]

\* GmailHandler.get_unread_emails: the service after the call, the emails
\* returned and the collaborators that failed.
ListedIds(unread, max_results) ==
  SubSeq(unread, 1, Min(max_results, Len(unread)))

\* The message of the mailbox with this id, as the API describes it.
Message(id) ==
  [id |-> id,
   threadId |-> id,
   subject |-> IF id % 2 = 1 THEN scenario_subject ELSE Subjects[2],
   from |-> IF id % 2 = 1 THEN Senders[1] ELSE Senders[2],
   snippet |-> IF id % 2 = 1 THEN scenario_body ELSE Fragments[2]]

get_unread_emails(service, creds, unread, max_results, auth, list, get) ==
  LET current == IF service = None THEN initialize(creds, auth) ELSE service
      ids == ListedIds(unread, max_results)
      auth_failed == service = None /\ creds /\ IsException(auth)
      list_failed == current # None /\ IsException(list)
      get_failed == current # None /\ ~IsException(list) /\ ids # << >>
                      /\ IsException(get)
  IN  [service |-> current,
       emails |-> IF current = None \/ list_failed \/ get_failed THEN << >>
                  ELSE [k \in 1..Len(ids) |-> Message(ids[k])],
       failed |-> IF auth_failed \/ list_failed \/ get_failed
                  THEN {"mailbox"} ELSE {}]

\* GmailHandler.mark_as_read: the ids that lost the UNREAD label.
mark_as_read(service, message_id, api) ==
  IF service = None \/ IsException(api) THEN {} ELSE {message_id}

\* GmailHandler.health_check
gmail_health_check(service, api) == service # None /\ ~IsException(api)

\* EmailProcessor.categorize_email
categorize_email(completion) ==
  IF IsException(completion) THEN category_important
  ELSE lower(strip(completion.content))

fallback_response ==
  <<"G", "r", "a", "c", "i", "a", "s", " ", "p", "o", "r", " ", "t", "u", " ", "e", "m", "a", "i", "l", ".", " ", "T", "e", " ", "r", "e", "s", "p", "o", "n", "d", "e", "r", "é", " ", "p", "r", "o", "n", "t", "o", ".">>

\* EmailProcessor.generate_auto_response
generate_auto_response(completion) ==
  IF IsException(completion) THEN fallback_response
  ELSE strip(completion.content)

reply_prefix == <<"R", "e", ":", " ">>

reply_opening ==
  <<"G", "r", "a", "c", "i", "a", "s", " ", "p", "o", "r", " ", "t", "u", " ", "e", "m", "a", "i", "l", " ", "u", "r", "g", "e", "n", "t", "e", ".", " ", "E", "s", "t", "o", "y", " ", "r", "e", "v", "i", "s", "a", "n", "d", "o", " ", "t", "u", " ", "s", "o", "l", "i", "c", "i", "t", "u", "d", ".", "\n", "\n">>

\* Mutant: an exception of the send is not caught by process_single_email.
process_single_email_uncaught(service, email, categorized, generated, api) ==
  LET category == categorize_email(categorized)
      sending == gmail_send_email(service, email.from, reply_prefix \o email.subject,
                   reply_opening \o generate_auto_response(generated), api)
  IN  [id |-> email.id,
       from |-> email.from,
       subject |-> email.subject,
       category |-> category,
       sent |-> IF category = category_urgent /\ ~IsException(sending)
                THEN <<sending.message>> ELSE << >>,
       marked |-> IF category \in {category_newsletter, category_spam}
                  THEN mark_as_read(service, email.id, api) ELSE {},
       failed |->
         (IF IsException(categorized) THEN {"language model"} ELSE {})
         \cup (IF category = category_urgent /\ IsException(generated)
               THEN {"language model"} ELSE {})
         \cup (IF category \in {category_urgent, category_newsletter, category_spam}
                  /\ service # None /\ IsException(api)
               THEN {"mailbox"} ELSE {}),
       raised |-> category = category_urgent /\ IsException(sending)]

\* EmailProcessor.process_single_email: what it did with one email, on the
\* processor's own handler.  Every exception is caught and logged.
process_single_email(service, email, categorized, generated, api) ==
  LET category == categorize_email(categorized)
      sending == gmail_send_email(service, email.from, reply_prefix \o email.subject,
                   reply_opening \o generate_auto_response(generated), api)
  IN  [id |-> email.id,
       from |-> email.from,
       subject |-> email.subject,
       category |-> category,
       sent |-> IF category = category_urgent /\ ~IsException(sending)
                THEN <<sending.message>> ELSE << >>,
       marked |-> IF category \in {category_newsletter, category_spam}
                  THEN mark_as_read(service, email.id, api) ELSE {},
       failed |->
         (IF IsException(categorized) THEN {"language model"} ELSE {})
         \cup (IF category = category_urgent /\ IsException(generated)
               THEN {"language model"} ELSE {})
         \cup (IF category \in {category_urgent, category_newsletter, category_spam}
                  /\ service # None /\ IsException(api)
               THEN {"mailbox"} ELSE {}),
       raised |-> FALSE]

\* The unread ids once some of them lost the UNREAD label.
RECURSIVE without(_, _)
without(ids, marked) ==
  IF ids = << >> THEN << >>
  ELSE IF Head(ids) \in marked THEN without(Tail(ids), marked)
  ELSE <<Head(ids)>> \o without(Tail(ids), marked)

default_max_emails == 10
default_max_results == 20

\* The responses of the endpoints.
auto_ok(body) == [status_code |-> http_ok, body |-> body]
auto_error(detail) == [status_code |-> http_error, body |-> [detail |-> detail]]

\* /send-email
send_email_endpoint(service, email, api, cache) ==
  LET sending == gmail_send_email(service, email.to, email.subject, email.body, api)
  IN  IF IsException(sending) THEN auto_error(sending.exception)
      ELSE IF IsException(cache) THEN auto_error(cache.exception)
      ELSE auto_ok([status |-> "success", message |-> "Email enviado exitosamente"])

\* /health
auto_health_check(service, cache, api) ==
  IF IsException(cache) THEN auto_ok([status |-> "unhealthy", error |-> cache.exception])
  ELSE IF gmail_health_check(service, api)
       THEN auto_ok([status |-> "healthy", redis |-> "ok", gmail_api |-> "ok"])
       ELSE auto_ok([status |-> "degraded", redis |-> "ok", gmail_api |-> "error"])

(***************************************************************************)
(* Inputs of the automation server.                                        *)
(***************************************************************************)
\* What a collaborator's call does: it answers, or it raises.
Answers == [answer |-> TRUE]
Outcomes == {Answers, Raise("ConnectionError")}

\* What the language model says when asked for a category.
Categorizations ==
  {Completion(c) : c \in {<<"u", "r", "g", "e", "n", "t">>,
                          <<" ", "U", "r", "g", "e", "n", "t", "\n">>,
                          <<"n", "e", "w", "s", "l", "e", "t", "t", "e", "r">>,
                          <<"s", "p", "a", "m">>,
                          <<"s", "o", "c", "i", "a", "l">>}}
  \cup {Raise("APIError")}

\* What it says when asked for a reply.
Generations ==
  {Completion(<<"R", "e", "c", "i", "b", "i", "d", "o", ",", " ", "l", "o", " ", "r", "e", "v", "i", "s", "o", " ", "h", "o", "y", ".", "\n">>),
   Raise("APIError")}

\* The calls one process_single_email makes, with what each does.  A call
\* that is not made cannot fail: the reply is asked for an urgent email
\* only, and the mailbox is called for an urgent email, a newsletter or spam.
Calls ==
  {calls \in [categorized : Categorizations, generated : Generations, api : Outcomes] :
     LET category == categorize_email(calls.categorized)
     IN  /\ IsException(calls.generated) => category = category_urgent
         /\ IsException(calls.api) =>
              category \in {category_urgent, category_newsletter, category_spam}}

MessageIds == 1..MaxEmails

RECURSIVE FirstIds(_)
FirstIds(n) == IF n = 0 THEN << >> ELSE FirstIds(n - 1) \o <<n>>

\* The mailboxes the server may start with.
Inboxes == {FirstIds(n) : n \in 0..MaxEmails}

EmailRequests ==
  {[to |-> Senders[1], subject |-> Subjects[2], body |-> Fragments[4]]}

NoAutoRequest == [route |-> ""]

IdleBatch == [pc |-> "idle", max_emails |-> 0, emails |-> << >>, next |-> 1]

(***************************************************************************)
(* The server as a state machine.                                          *)
(***************************************************************************)
\* mcp_server = MCPServer()
ServerConstructed ==
  /\ tools = register_tools(<< >>)
  /\ clock = 0
  /\ request = NoRequest
  /\ pending = FALSE
  /\ dispatched = NoValue
  /\ response = NoValue
  /\ previous = NoValue

\* gmail_handler = GmailHandler(); email_processor = EmailProcessor()
AutoConstructed ==
  /\ started = FALSE
  /\ gmail_service = None
  /\ processor_service = None
  /\ outbox = << >>
  /\ auto_request = NoAutoRequest
  /\ auto_response = NoValue
  /\ failed = {}
  /\ batch = IdleBatch
  /\ processed = << >>
  /\ last = NoValue

\* The classifier server runs alone: the automation server is not started.
Init ==
  /\ ServerConstructed
  /\ AutoConstructed
  /\ credentials = FALSE
  /\ inbox = << >>

\* A client sends a request.
Receive ==
  /\ ~pending
  /\ clock < MaxClock
  /\ \E r \in Requests :
        /\ request' = r
        /\ previous' = IF r = request THEN response ELSE NoValue
  /\ pending' = TRUE
  /\ dispatched' = NoValue
  /\ response' = NoValue
  /\ UNCHANGED <<tools, clock>>
  /\ UNCHANGED autoVars

Classify ==
  /\ pending /\ request.route = "/classify"
  /\ response' = classify_endpoint(request.body, clock)
  /\ pending' = FALSE
  /\ clock' = clock + 1
  /\ UNCHANGED <<tools, request, dispatched, previous>>
  /\ UNCHANGED autoVars

CallTool ==
  /\ pending /\ request.route = "/tools/{tool_name}"
  /\ dispatched' = dispatch(tools, request.tool_name, request.body, clock)
  /\ response' = call_tool(tools, request.tool_name, request.body, clock)
  /\ pending' = FALSE
  /\ clock' = clock + 1
  /\ UNCHANGED <<tools, request, previous>>
  /\ UNCHANGED autoVars

HealthCheck ==
  /\ pending /\ request.route = "/health"
  /\ response' = health_check(clock)
  /\ pending' = FALSE
  /\ clock' = clock + 1
  /\ UNCHANGED <<tools, request, dispatched, previous>>
  /\ UNCHANGED autoVars

ListTools ==
  /\ pending /\ request.route = "/tools"
  /\ response' = list_tools(tools)
  /\ pending' = FALSE
  /\ clock' = clock + 1
  /\ UNCHANGED <<tools, request, dispatched, previous>>
  /\ UNCHANGED autoVars

Next == Receive \/ Classify \/ CallTool \/ HealthCheck \/ ListTools

Spec == Init /\ [][Next]_vars

(***************************************************************************)
(* The automation server as a state machine.                               *)
(***************************************************************************)
AutoInit ==
  /\ ServerConstructed
  /\ AutoConstructed
  /\ credentials \in BOOLEAN
  /\ inbox \in Inboxes

\* No request is served while the background batch holds the event loop.
Serving ==
  /\ started
  /\ batch.pc \in {"idle", "finished"}

\* startup_event: a cache that does not answer skips the initialization.
StartupEvent ==
  /\ ~started
  /\ started' = TRUE
  /\ \E cache \in Outcomes, auth \in Outcomes :
        gmail_service' = IF IsException(cache) THEN gmail_service
                         ELSE initialize(credentials, auth)
  /\ UNCHANGED <<processor_service, credentials, inbox, outbox, auto_request,
                 auto_response, failed, batch, processed, last>>
  /\ UNCHANGED classifierVars

Root ==
  /\ Serving
  /\ auto_request' = [route |-> "/"]
  /\ auto_response' = auto_ok([message |-> "MCP Email Automation Server",
                               status |-> "running"])
  /\ failed' = {}
  /\ outbox' = << >>
  /\ processed' = << >>
  /\ last' = NoValue
  /\ UNCHANGED <<started, gmail_service, processor_service, credentials, inbox,
                 batch>>
  /\ UNCHANGED classifierVars

SendEmail ==
  /\ Serving
  /\ \E email \in EmailRequests, api \in Outcomes, cache \in Outcomes :
       LET sending == gmail_send_email(gmail_service, email.to, email.subject,
                                       email.body, api)
       IN  /\ auto_request' = [route |-> "/send-email", email |-> email]
           /\ auto_response' = send_email_endpoint(gmail_service, email, api, cache)
           /\ outbox' = IF IsException(sending) THEN << >>
                        ELSE <<sending.message>>
           /\ failed' = (IF gmail_service # None /\ IsException(api)
                         THEN {"mailbox"} ELSE {})
                        \cup (IF ~IsException(sending) /\ IsException(cache)
                              THEN {"cache"} ELSE {})
  /\ processed' = << >>
  /\ last' = NoValue
  /\ UNCHANGED <<started, gmail_service, processor_service, credentials, inbox,
                 batch>>
  /\ UNCHANGED classifierVars

\* /process-emails: the batch is scheduled and the request is answered.
ProcessEmails ==
  /\ Serving
  /\ \E max_emails \in {1, default_max_emails} :
       /\ auto_request' = [route |-> "/process-emails", max_emails |-> max_emails]
       /\ batch' = [pc |-> "scheduled", max_emails |-> max_emails,
                    emails |-> << >>, next |-> 1]
  /\ auto_response' = auto_ok([status |-> "processing_started"])
  /\ failed' = {}
  /\ outbox' = << >>
  /\ processed' = << >>
  /\ last' = NoValue
  /\ UNCHANGED <<started, gmail_service, processor_service, credentials, inbox>>
  /\ UNCHANGED classifierVars

\* process_emails_batch, up to the loop: the fetch on the processor's handler.
BatchFetch ==
  /\ batch.pc = "scheduled"
  /\ \E auth \in Outcomes, list \in Outcomes, get \in Outcomes :
       LET fetch == get_unread_emails(processor_service, credentials, inbox,
                                      batch.max_emails, auth, list, get)
       IN  /\ processor_service' = fetch.service
           /\ failed' = fetch.failed
           /\ batch' = [batch EXCEPT !.pc = IF fetch.emails = << >> THEN "finished"
                                             ELSE "running",
                                     !.emails = fetch.emails]
  /\ UNCHANGED <<started, gmail_service, credentials, inbox, outbox, auto_request,
                 auto_response, processed, last>>
  /\ UNCHANGED classifierVars

\* process_emails_batch, one turn of the loop; an exception leaves the loop.
BatchStep ==
  /\ batch.pc = "running"
  /\ \E calls \in Calls :
       LET email == batch.emails[batch.next]
           done == process_single_email(processor_service, email, calls.categorized,
                                        calls.generated, calls.api)
       IN  /\ processed' = Append(processed, email.id)
           /\ last' = done
           /\ outbox' = done.sent
           /\ inbox' = without(inbox, done.marked)
           /\ failed' = failed \cup done.failed
           /\ batch' = [batch EXCEPT
                          !.pc = IF done.raised \/ batch.next = Len(batch.emails)
                                 THEN "finished" ELSE "running",
                          !.next = batch.next + 1]
  /\ UNCHANGED <<started, gmail_service, processor_service, credentials,
                 auto_request, auto_response>>
  /\ UNCHANGED classifierVars

\* /emails/unread
GetUnreadEmails ==
  /\ Serving
  /\ \E max_results \in {1, default_max_results},
        auth \in Outcomes, list \in Outcomes, get \in Outcomes :
       LET fetch == get_unread_emails(gmail_service, credentials, inbox,
                                      max_results, auth, list, get)
       IN  /\ auto_request' = [route |-> "/emails/unread", max_results |-> max_results]
           /\ gmail_service' = fetch.service
           /\ failed' = fetch.failed
           /\ auto_response' = auto_ok([status |-> "success",
                                        count |-> Len(fetch.emails),
                                        emails |-> fetch.emails])
  /\ outbox' = << >>
  /\ processed' = << >>
  /\ last' = NoValue
  /\ UNCHANGED <<started, processor_service, credentials, inbox, batch>>
  /\ UNCHANGED classifierVars

\* /webhook/gmail
GmailWebhook ==
  /\ Serving
  /\ \E id \in MessageIds, calls \in Calls :
       LET done == process_single_email(processor_service, Message(id),
                                        calls.categorized, calls.generated, calls.api)
       IN  /\ auto_request' = [route |-> "/webhook/gmail", message_id |-> id]
           /\ processed' = <<id>>
           /\ last' = done
           /\ outbox' = done.sent
           /\ inbox' = without(inbox, done.marked)
           /\ failed' = done.failed
           /\ auto_response' = IF done.raised THEN auto_error("Exception")
                               ELSE auto_ok([status |-> "processed"])
  /\ UNCHANGED <<started, gmail_service, processor_service, credentials, batch>>
  /\ UNCHANGED classifierVars

\* /health
AutoHealthCheck ==
  /\ Serving
  /\ \E cache \in Outcomes, api \in Outcomes :
       /\ auto_response' = auto_health_check(gmail_service, cache, api)
       /\ failed' = (IF IsException(cache) THEN {"cache"} ELSE {})
                    \cup (IF ~IsException(cache) /\ gmail_service # None
                             /\ IsException(api)
                          THEN {"mailbox"} ELSE {})
  /\ auto_request' = [route |-> "/health"]
  /\ outbox' = << >>
  /\ processed' = << >>
  /\ last' = NoValue
  /\ UNCHANGED <<started, gmail_service, processor_service, credentials, inbox,
                 batch>>
  /\ UNCHANGED classifierVars

AutoNext ==
  \/ StartupEvent
  \/ Root
  \/ SendEmail
  \/ ProcessEmails
  \/ BatchFetch
  \/ BatchStep
  \/ GetUnreadEmails
  \/ GmailWebhook
  \/ AutoHealthCheck

AutoSpec == AutoInit /\ [][AutoNext]_vars

\* The background task, once scheduled, runs to its end: nothing else runs on
\* the event loop before it returns.
AutoLiveSpec == AutoSpec /\ WF_vars(BatchFetch) /\ WF_vars(BatchStep)

(***************************************************************************)
(* What a state shows of the calls made: the arguments and the result of   *)
(* the tool that the answered request ran.                                 *)
(***************************************************************************)
Answered == ~pending /\ request.route # ""

ToolRoute == "/tools/{tool_name}"

\* The answered request ran the tool registered under name and got a result.
RanTool(name) ==
  /\ Answered
  /\ request.route = ToolRoute
  /\ request.tool_name = name
  /\ response.status = http_ok

\* The answered request posted a body of exactly these keys to the tool name.
WellFormed(name, keys) ==
  /\ Answered
  /\ request.route = ToolRoute
  /\ request.tool_name = name
  /\ DOMAIN request.body = keys

ClassifyCalls ==
  IF Answered /\ request.route = "/classify" /\ response.status = http_ok
  THEN {[args |-> request.body, result |-> response.body.classification]}
  ELSE IF RanTool("classify_email")
  THEN {[args |-> request.body, result |-> response.body.result]}
  ELSE {}

UrgencyCalls ==
  IF RanTool("extract_urgency")
  THEN {[args |-> request.body, result |-> response.body.result]}
  ELSE {}

SentimentCalls ==
  IF RanTool("analyze_sentiment")
  THEN {[args |-> request.body, result |-> response.body.result]}
  ELSE {}

\* The text the classifier matches its keywords against.
ClassifiedText(args) == lower(args.email_content \o Space \o args.subject)

\* The keywords of a list that occur in a text, as positions of the list.
Present(keywords, text) == {k \in 1..Len(keywords) : Contains(keywords[k], text)}

(***************************************************************************)
(* C1: classify_email returns the label of the first rule that matches, in *)
(* the order URGENT, SPAM, NEWSLETTER, SUPPORT keywords in the lower-cased *)
(* email_content + " " + subject, then "newsletter" in the lower-cased     *)
(* sender, else IMPORTANT; a text with both "urgent" and "win" is URGENT.  *)
(***************************************************************************)
PriorityRules(args) ==
  LET text == ClassifiedText(args)
  IN  << [label |-> "URGENT", matches |-> Present(urgent_indicators, text) # {}],
         [label |-> "SPAM", matches |-> Present(spam_indicators, text) # {}],
         [label |-> "NEWSLETTER", matches |-> Present(newsletter_indicators, text) # {}],
         [label |-> "SUPPORT", matches |-> Present(support_indicators, text) # {}],
         [label |-> "NEWSLETTER", matches |-> Contains(kw_newsletter, lower(args.sender))],
         [label |-> "IMPORTANT", matches |-> TRUE] >>

FirstMatch(rules) ==
  CHOOSE k \in 1..Len(rules) : rules[k].matches /\ \A j \in 1..(k - 1) : ~rules[j].matches

UrgentAndWin(args) ==
  /\ Contains(urgent_indicators[1], ClassifiedText(args))
  /\ Contains(spam_indicators[2], ClassifiedText(args))

C1_PriorityOrder ==
  \A call \in ClassifyCalls :
    /\ call.result.category = PriorityRules(call.args)[FirstMatch(PriorityRules(call.args))].label
    /\ UrgentAndWin(call.args) => call.result.category = "URGENT"

C1_Witness ==
  \E call \in ClassifyCalls : UrgentAndWin(call.args) /\ call.result.category = "URGENT"

(***************************************************************************)
(* C2: every classification answers with a category that is one of URGENT, *)
(* SPAM, NEWSLETTER, SUPPORT, IMPORTANT: never empty, never another value. *)
(***************************************************************************)
C2_CategoryInClosedSet ==
  /\ Answered /\ request.route = "/classify" => response.status = http_ok
  /\ WellFormed("classify_email", {"email_content", "sender", "subject"})
       => response.status = http_ok
  /\ \A call \in ClassifyCalls :
       call.result.category \in {"URGENT", "SPAM", "NEWSLETTER", "SUPPORT", "IMPORTANT"}

\* The default branch was taken: no keyword in the text, none in the sender.
C2_Witness ==
  \E call \in ClassifyCalls :
    /\ FirstMatch(PriorityRules(call.args)) = 6
    /\ call.result.category = "IMPORTANT"

(***************************************************************************)
(* C3: the confidence, in hundredths, is 70 plus 15 for each strong        *)
(* indicator of the chosen category present in the text, capped at 95, so  *)
(* it lies in 70..95 however many indicators match.                        *)
(***************************************************************************)
StrongHits(call) ==
  Cardinality(Present(strong_for(call.result.category), ClassifiedText(call.args)))

C3_ConfidenceFormula ==
  \A call \in ClassifyCalls :
    /\ call.result.confidence =
         (IF 70 + 15 * StrongHits(call) > 95 THEN 95 ELSE 70 + 15 * StrongHits(call))
    /\ call.result.confidence >= 70
    /\ call.result.confidence <= 95

\* Three strong indicators matched: the uncapped sum 115 is reported as 95.
C3_Witness ==
  \E call \in ClassifyCalls : StrongHits(call) = 3 /\ call.result.confidence = 95

(***************************************************************************)
(* C4: extract_urgency reports a score in 0..10 that is the sum of 1 per   *)
(* urgency keyword present and 2 per deadline keyword present, capped at   *)
(* 10; the reported level is HIGH iff the reported score > 5, MEDIUM iff   *)
(* 2 < score <= 5, LOW otherwise, and has_urgency iff the score > 0, also  *)
(* when the uncapped sum exceeds 10.                                       *)
(***************************************************************************)
UncappedSum(args) ==
  Cardinality(Present(urgency_keywords, lower(args.email_content)))
  + 2 * Cardinality(Present(deadline_keywords, lower(args.email_content)))

C4_UrgencyConsistent ==
  /\ WellFormed("extract_urgency", {"email_content"}) => response.status = http_ok
  /\ \A call \in UrgencyCalls :
       LET score == call.result.urgency_score
           level == call.result.urgency_level
       IN  /\ score \in 0..10
           /\ score = (IF UncappedSum(call.args) > 10 THEN 10 ELSE UncappedSum(call.args))
           /\ level \in {"HIGH", "MEDIUM", "LOW"}
           /\ (level = "HIGH") <=> (score > 5)
           /\ (level = "MEDIUM") <=> (score > 2 /\ score <= 5)
           /\ (level = "LOW") <=> (score <= 2)
           /\ call.result.has_urgency <=> (score > 0)

C4_Witness ==
  \E call \in UrgencyCalls :
    /\ UncappedSum(call.args) > 10
    /\ call.result.urgency_score = 10
    /\ call.result.urgency_level = "HIGH"
    /\ call.result.has_urgency

(***************************************************************************)
(* C5: analyze_sentiment counts every positive and every negative keyword  *)
(* at most once, answers POSITIVE iff the positive count is greater,       *)
(* NEGATIVE iff the negative count is greater and NEUTRAL iff they are     *)
(* equal; with both counts zero it answers NEUTRAL with confidence 0 and   *)
(* does not fail on the division.                                          *)
(***************************************************************************)
C5_SentimentByMajority ==
  /\ WellFormed("analyze_sentiment", {"email_content"}) => response.status = http_ok
  /\ \A call \in SentimentCalls :
       LET text == lower(call.args.email_content)
           p == call.result.positive_indicators
           n == call.result.negative_indicators
       IN  /\ p = Cardinality(Present(positive_words, text))
           /\ n = Cardinality(Present(negative_words, text))
           /\ (call.result.sentiment = "POSITIVE") <=> (p > n)
           /\ (call.result.sentiment = "NEGATIVE") <=> (n > p)
           /\ (call.result.sentiment = "NEUTRAL") <=> (p = n)
           /\ (p = 0 /\ n = 0) =>
                /\ call.result.sentiment = "NEUTRAL"
                /\ call.result.confidence.num = 0
                /\ call.result.confidence.den # 0

C5_Witness ==
  \E call \in SentimentCalls :
    /\ call.result.positive_indicators = 0
    /\ call.result.negative_indicators = 0
    /\ call.result.sentiment = "NEUTRAL"
    /\ call.result.confidence.num = 0

(***************************************************************************)
(* C6: handle_request called with a tool name that is not registered       *)
(* returns the "tool not found" error value, raises nothing and leaves the *)
(* registry as it was.                                                     *)
(***************************************************************************)
\* handle_request is entered: the body has no key that collides with its own
\* parameters at the call in call_tool.
EntersDispatcher(body) == DOMAIN body \cap {"self", "tool_name"} = {}

C6_UnknownToolIsErrorValue ==
  [][(/\ pending /\ ~pending'
      /\ request.route = ToolRoute
      /\ ~has_tool(tools, request.tool_name)
      /\ EntersDispatcher(request.body))
     => (/\ ~IsException(dispatched')
         /\ dispatched' = [error |-> <<"Tool", request.tool_name, "not found">>]
         /\ tools' = tools)]_vars

C6_Witness ==
  /\ Answered
  /\ request.route = ToolRoute
  /\ request.tool_name = "nonexistent"
  /\ EntersDispatcher(request.body)
  /\ dispatched = [error |-> <<"Tool", "nonexistent", "not found">>]

(***************************************************************************)
(* C7, as claimed: a registered tool invoked through the dispatcher with a *)
(* parameter mapping whose keys do not match its parameters yields a       *)
(* failure result value and no exception.                                  *)
(***************************************************************************)
KeysMismatch ==
  /\ Answered
  /\ request.route = ToolRoute
  /\ has_tool(tools, request.tool_name)
  /\ \/ ~EntersDispatcher(request.body)
     \/ ~binds(get_tool(tools, request.tool_name), request.body)

C7_MismatchIsFailureResult ==
  KeysMismatch => ~IsException(dispatched) /\ "error" \in DOMAIN dispatched

(***************************************************************************)
(* C8, as claimed: POST /tools/{tool_name} answers with success = true     *)
(* only when the tool name is registered; an unregistered name is answered *)
(* with an error and not with a success envelope.                          *)
(***************************************************************************)
SuccessEnvelope ==
  /\ Answered
  /\ request.route = ToolRoute
  /\ response.status = http_ok
  /\ response.body.success

C8_SuccessOnlyOnRegistryHit ==
  SuccessEnvelope => has_tool(tools, request.tool_name)

(***************************************************************************)
(* C9: in every reachable state the registry maps exactly classify_email,  *)
(* suggest_response, extract_urgency and analyze_sentiment to their        *)
(* functions, and GET /tools lists exactly these names.                    *)
(***************************************************************************)
RegisteredNames ==
  {"classify_email", "suggest_response", "extract_urgency", "analyze_sentiment"}

C9_RegistryReadOnly ==
  /\ Len(tools) = 4
  /\ {tools[k].name : k \in 1..Len(tools)} = RegisteredNames
  /\ get_tool(tools, "classify_email") = "MCPServer.classify_email"
  /\ get_tool(tools, "suggest_response") = "MCPServer.suggest_response"
  /\ get_tool(tools, "extract_urgency") = "MCPServer.extract_urgency"
  /\ get_tool(tools, "analyze_sentiment") = "MCPServer.analyze_sentiment"
  /\ (Answered /\ request.route = "/tools") =>
       /\ response.status = http_ok
       /\ Len(response.body.tools) = 4
       /\ Range(response.body.tools) = RegisteredNames

\* The names are listed after two other requests have been answered.
C9_Witness ==
  /\ Answered
  /\ request.route = "/tools"
  /\ clock = 3
  /\ Range(response.body.tools) = RegisteredNames

(***************************************************************************)
(* C10: a triage tool called twice with identical input answers with the   *)
(* same fields both times, whatever was answered before; only              *)
(* analysis_time may differ.                                               *)
(***************************************************************************)
\* A tool result without its timestamp.
WithoutTime(result) ==
  IF "analysis_time" \in DOMAIN result
  THEN [k \in DOMAIN result \ {"analysis_time"} |-> result[k]]
  ELSE result

\* What an answer to a triage request carries besides the timestamp.
TriageFields(answer) ==
  IF answer.status # http_ok THEN answer
  ELSE IF "classification" \in DOMAIN answer.body
  THEN [status |-> answer.status, fields |-> WithoutTime(answer.body.classification)]
  ELSE [status |-> answer.status, fields |-> WithoutTime(answer.body.result)]

RepeatedTriage ==
  /\ Answered
  /\ request.route \in {"/classify", ToolRoute}
  /\ ~IsNoValue(previous)

SuggestCalls ==
  IF RanTool("suggest_response")
  THEN {[args |-> request.body, result |-> response.body.result]}
  ELSE {}

\* The tone a call runs with.
ToneOf(args) == IF "tone" \in DOMAIN args THEN args.tone ELSE "professional"

MappedPair(category, tone) ==
  /\ category \in {"URGENT", "SUPPORT", "IMPORTANT", "NEWSLETTER"}
  /\ tone \in {"professional", "friendly"}

C11_SuggestLookup ==
  /\ WellFormed("suggest_response", {"email_content", "category"})
       => response.status = http_ok
  /\ WellFormed("suggest_response", {"email_content", "category", "tone"})
       => response.status = http_ok
  /\ \A call \in SuggestCalls :
       LET category == call.args.category
           tone == ToneOf(call.args)
       IN  /\ call.result.tone = tone
           /\ call.result.category = category
           /\ MappedPair(category, tone) =>
                /\ call.result.suggested_response = responses[category][tone]
                /\ call.result.suggested_response
                     # "He recibido su mensaje. Le responderé pronto."
           /\ ~MappedPair(category, tone) =>
                call.result.suggested_response
                  = "He recibido su mensaje. Le responderé pronto."

\* A known category asked with an unknown tone got the generic string.
C11_Witness ==
  \E call \in SuggestCalls :
    /\ call.args.category = "URGENT"
    /\ ToneOf(call.args) = "casual"
    /\ call.result.suggested_response = "He recibido su mensaje. Le responderé pronto."

(***************************************************************************)
(* C12: classify_email never fails on a sender lacking a domain; the       *)
(* reported sender_domain is the text after the '@' when a domain is       *)
(* present and "unknown" whenever none is: a sender without '@', and       *)
(* likewise a sender with nothing after its '@'.                           *)
(***************************************************************************)
AtSigns(sender) == {i \in 1..Len(sender) : sender[i] = "@"}

HasDomain(sender) ==
  /\ AtSigns(sender) # {}
  /\ \E i \in AtSigns(sender) : i < Len(sender) /\ \A j \in AtSigns(sender) : j <= i

DomainSuffix(sender) ==
  LET at == CHOOSE i \in AtSigns(sender) : \A j \in AtSigns(sender) : j <= i
  IN  SubSeq(sender, at + 1, Len(sender))

C12_SenderDomainOrUnknown ==
  /\ (Answered /\ request.route = "/classify") => response.status = http_ok
  /\ \A call \in ClassifyCalls :
       call.result.sender_domain =
         (IF HasDomain(call.args.sender) THEN DomainSuffix(call.args.sender)
          ELSE <<"u", "n", "k", "n", "o", "w", "n">>)

(***************************************************************************)
(* C13: the email with subject "URGENTE: revisión crítica", body           *)
(* "Necesito esto hoy, es una emergencia" and sender "ceo@company.com" is  *)
(* classified URGENT with sender_domain "company.com" and a confidence of  *)
(* at least 0.85 (85 hundredths).                                          *)
(***************************************************************************)
IsScenario(args) ==
  /\ args.subject = scenario_subject
  /\ args.email_content = scenario_body
  /\ args.sender = <<"c", "e", "o", "@", "c", "o", "m", "p", "a", "n", "y", ".", "c", "o", "m">>

C13_UrgentScenario ==
  \A call \in ClassifyCalls :
    IsScenario(call.args) =>
      /\ call.result.category = "URGENT"
      /\ call.result.sender_domain = <<"c", "o", "m", "p", "a", "n", "y", ".", "c", "o", "m">>
      /\ call.result.confidence >= 85

\* The scenario was posted to /classify and answered.
C13_Witness ==
  \E call \in ClassifyCalls :
    /\ IsScenario(call.args)
    /\ request.route = "/classify"
    /\ call.result.confidence = 85

(***************************************************************************)
(* C15: every strong indicator that raises the confidence of a category    *)
(* is a member of the indicator list by which that category is chosen.     *)
(***************************************************************************)
IndicatorsOf(category) ==
  CASE category = "URGENT" -> Range(urgent_indicators)
    [] category = "SPAM" -> Range(spam_indicators)
    [] category = "NEWSLETTER" -> Range(newsletter_indicators)
    [] category = "SUPPORT" -> Range(support_indicators)
    [] OTHER -> {}

\* The strong indicators that raised the confidence of a classification.
RaisedBy(call) ==
  {strong_for(call.result.category)[k] :
     k \in Present(strong_for(call.result.category), ClassifiedText(call.args))}

C15_StrongWithinIndicators ==
  \A call \in ClassifyCalls :
    call.result.confidence > 70 =>
      RaisedBy(call) \subseteq IndicatorsOf(call.result.category)

(***************************************************************************)
(* C14: every failure of a collaborator (mailbox API, language model,      *)
(* cache) during a request to /send-email, /emails/unread, /webhook/gmail  *)
(* or /health is reported to the caller as a failure: the request is       *)
(* answered, and it is not answered with a success or processed status.    *)
(***************************************************************************)
GuardedRoutes == {"/send-email", "/emails/unread", "/webhook/gmail", "/health"}

ReportsFailure(answer) ==
  \/ answer.status_code = http_error
  \/ answer.body.status \in {"unhealthy", "degraded", "error"}

C14_FailuresReported ==
  (auto_request.route \in GuardedRoutes /\ failed # {}) =>
    /\ auto_response # NoValue
    /\ ReportsFailure(auto_response)

(***************************************************************************)
(* C16: whenever process_single_email categorizes an email as urgent, by a *)
(* webhook or in a batch, whatever the requests since startup, one reply   *)
(* to the sender with subject "Re: <subject>" is sent through the mailbox; *)
(* a newsletter or spam is marked read and not answered; any other         *)
(* category causes neither.  Stated for the emails during whose processing *)
(* no collaborator failed, with credentials in the environment.            *)
(***************************************************************************)
ReplyTo(entry) ==
  /\ Len(entry.sent) = 1
  /\ entry.sent[1].to = entry.from
  /\ entry.sent[1].subject = <<"R", "e", ":", " ">> \o entry.subject

C16_UrgentIsAnswered ==
  last # NoValue =>
    LET entry == last
    IN  (credentials /\ entry.failed = {}) =>
          /\ entry.category = <<"u", "r", "g", "e", "n", "t">> =>
               /\ ReplyTo(entry)
               /\ outbox = entry.sent
               /\ entry.marked = {}
          /\ entry.category \in {<<"n", "e", "w", "s", "l", "e", "t", "t", "e", "r">>,
                                 <<"s", "p", "a", "m">>} =>
               /\ entry.marked = {entry.id}
               /\ entry.sent = << >>
               /\ \A j \in 1..Len(inbox) : inbox[j] # entry.id
          /\ entry.category \notin {<<"u", "r", "g", "e", "n", "t">>,
                                    <<"n", "e", "w", "s", "l", "e", "t", "t", "e", "r">>,
                                    <<"s", "p", "a", "m">>} =>
               /\ entry.sent = << >>
               /\ entry.marked = {}

(***************************************************************************)
(* C17: process_emails_batch processes every email the fetch returned      *)
(* exactly once and in the order returned; a failure while one email is    *)
(* processed does not keep the following ones from being processed; the    *)
(* batch, once scheduled, ends, and it ends by exhausting the list.        *)
(***************************************************************************)
BatchShown == auto_request.route = "/process-emails" /\ batch.pc \in {"running", "finished"}

FetchedIds(n) == [k \in 1..n |-> batch.emails[k].id]

BatchInOrder ==
  BatchShown =>
    /\ batch.next \in 1..(Len(batch.emails) + 1)
    /\ processed = FetchedIds(batch.next - 1)
    /\ batch.pc = "finished" => processed = FetchedIds(Len(batch.emails))
    /\ batch.pc = "running" => batch.next <= Len(batch.emails)

C17_BatchProcessesAll ==
  /\ []BatchInOrder
  /\ (batch.pc = "scheduled") ~> (batch.pc = "finished")

\* A batch of two emails ended although a call to the mailbox failed while
\* the first was processed.
C17_Witness ==
  /\ BatchShown
  /\ batch.pc = "finished"
  /\ Len(processed) = 2
  /\ "mailbox" \in failed
  /\ last.failed = {}

=============================================================================
